---- MODULE Spec2Model ----
(***************************************************************************)
(* Model of the Stud.IP rclone backend (backend/studip/studip.go).         *)
(*                                                                         *)
(* Strings are sequences of byte codes, so that Go's byte-wise string      *)
(* comparison, strings.Split, path.Clean, filepath.Dir and filepath.Join   *)
(* are computed rather than assumed.  Pointers to Node are addresses into  *)
(* the sequence heap; address 0 is nil.  Every invocation of               *)
(* Fs.FillFolderNode is a task, keyed by the address of the node it was    *)
(* asked to fill; all tasks but the root one run in their own goroutine    *)
(* and report on the unbuffered channel errChan of their parent.           *)
(***************************************************************************)
EXTENDS Integers, Sequences, FiniteSets, TLC

VARIABLES
    remote,      \* the remote store: course folder listing, subfolders and file-refs of each folder
    root,        \* the root argument of NewFs
    cancelled,   \* ctx.Err() != nil
    heap,        \* the allocated Node values, by address
    task,        \* the FillFolderNode invocations, by the node they fill
    mainPc,      \* where NewFs (and then the caller holding the Fs) stands
    rootID,      \* NewFs's local rootID
    rootNode,    \* NewFs's local rootNode, the result of GetCourseFileTree
    newFsErr,    \* the error NewFs returned
    fsRootNode,  \* f.rootNode
    fetchLog,    \* the remote requests issued so far, with their outcome
    last         \* the last call made on the finished Fs, and what it returned

vars == <<remote, root, cancelled, heap, task, mainPc, rootID, rootNode,
          newFsErr, fsRootNode, fetchLog, last>>

----------------------------------------------------------------------------
(* Bounds *)

\* The root folder of the remote store has at most this many subfolders.
MaxFanout == 2

----------------------------------------------------------------------------
(* Strings *)

Sep == 47

sEmpty == <<>>
sDot == <<46>>
sDotDot == <<46, 46>>
sSlash == <<Sep>>
sA == <<65>>
sB == <<66>>
sa == <<97>>
sb == <<98>>
sc == <<99>>
sd == <<100>>
su == <<117>>
sw == <<119>>
sx == <<120>>
szz == <<122, 122>>

\* Go's < on strings: byte-wise lexicographic.
RECURSIVE StrLess(_, _)
StrLess(a, b) ==
    IF b = <<>> THEN FALSE
    ELSE IF a = <<>> THEN TRUE
    ELSE IF a[1] # b[1] THEN a[1] < b[1]
    ELSE StrLess(Tail(a), Tail(b))

\* strings.Split(s, sep) for a one-byte separator.
RECURSIVE Split(_, _)
Split(s, sep) ==
    IF \A i \in 1..Len(s) : s[i] # sep
    THEN <<s>>
    ELSE LET i == CHOOSE k \in 1..Len(s) :
                      s[k] = sep /\ \A j \in 1..(k - 1) : s[j] # sep
         IN  <<SubSeq(s, 1, i - 1)>> \o Split(SubSeq(s, i + 1, Len(s)), sep)

\* strings.Join(elems, "/")
RECURSIVE JoinSep(_)
JoinSep(elems) ==
    IF elems = <<>> THEN <<>>
    ELSE IF Len(elems) = 1 THEN elems[1]
    ELSE elems[1] \o sSlash \o JoinSep(Tail(elems))

\* The element walk of path.Clean: drop "" and ".", let ".." remove the
\* element before it (or drop it at the root, or keep it in a relative path).
RECURSIVE CleanElems(_, _, _)
CleanElems(elems, out, rooted) ==
    IF elems = <<>> THEN out
    ELSE LET e == Head(elems)
         IN  IF e = sEmpty \/ e = sDot
             THEN CleanElems(Tail(elems), out, rooted)
             ELSE IF e = sDotDot
             THEN IF out # <<>> /\ out[Len(out)] # sDotDot
                  THEN CleanElems(Tail(elems), SubSeq(out, 1, Len(out) - 1), rooted)
                  ELSE IF rooted
                  THEN CleanElems(Tail(elems), out, rooted)
                  ELSE CleanElems(Tail(elems), Append(out, e), rooted)
             ELSE CleanElems(Tail(elems), Append(out, e), rooted)

\* path.Clean (filepath.Clean is the same where the separator is "/").
Clean(p) ==
    IF p = <<>> THEN sDot
    ELSE LET rooted == p[1] = Sep
             body == JoinSep(CleanElems(Split(p, Sep), <<>>, rooted))
         IN  IF rooted THEN sSlash \o body
             ELSE IF body = <<>> THEN sDot
             ELSE body

\* filepath.Dir: all but the last element of the path, cleaned.
Dir(p) ==
    LET seps == {i \in 1..Len(p) : p[i] = Sep}
        i == IF seps = {} THEN 0 ELSE CHOOSE k \in seps : \A j \in seps : j <= k
    IN  Clean(SubSeq(p, 1, i))

\* filepath.Join(dir, name): from the first non-empty element on, joined and cleaned.
Join(dir, name) ==
    IF dir # <<>> THEN Clean(dir \o sSlash \o name)
    ELSE IF name # <<>> THEN Clean(name)
    ELSE <<>>

\* splitPath
splitPath(p) ==
    LET q == Clean(p)
    IN  IF q = sSlash THEN <<>> ELSE Split(q, Sep)

----------------------------------------------------------------------------
(* The remote store *)

FolderRec(id, name, chdate, ftype) ==
    [ID |-> id, Name |-> name, Chdate |-> chdate, FolderType |-> ftype]

FileRec(id, name, chdate, size, mime, readable, downloadable) ==
    [ID |-> id, Name |-> name, Chdate |-> chdate, Filesize |-> size,
     MimeType |-> mime, IsReadable |-> readable, IsDownloadable |-> downloadable]

SubfolderName(i) == IF i = 1 THEN sb ELSE IF i = 2 THEN sA ELSE sc

\* The folders of a store whose root folder (id 1) has n subfolders (ids
\* 11, 12, ...); the first of them has one subfolder of its own (id 21).
RemoteFolderIds(n) == {1} \cup {10 + i : i \in 1..n} \cup (IF n >= 1 THEN {21} ELSE {})

\* A store: root/ {b/ {x/ {d, d}, x, w}, A/ {b, A, c}, c/ ..., a, B, u}.
\* u is not readable and w is not downloadable; x names a folder and a file
\* of b, and the two files of b/x share the name d.  The course's folder
\* listing has an entry without the root marker before the root folder's
\* entry, and from two subfolders on a second entry with the marker after it.
RemoteStore(n, hasRoot) ==
    [course |->
        (IF n >= 1 THEN <<FolderRec(11, sb, 1, "StandardFolder")>> ELSE <<>>)
        \o (IF hasRoot THEN <<FolderRec(1, sEmpty, 1, "RootFolder")>> ELSE <<>>)
        \o (IF hasRoot /\ n >= 2 THEN <<FolderRec(12, sA, 2, "RootFolder")>> ELSE <<>>),
     folders |-> [f \in RemoteFolderIds(n) |->
        IF f = 1 THEN [i \in 1..n |-> FolderRec(10 + i, SubfolderName(i), i, "StandardFolder")]
        ELSE IF f = 11 THEN <<FolderRec(21, sx, 9, "StandardFolder")>>
        ELSE <<>>],
     files |-> [f \in RemoteFolderIds(n) |->
        IF f = 1 THEN <<FileRec(31, sa, 2, 5, "text/plain", TRUE, TRUE),
                        FileRec(32, sB, 3, 7, "application/pdf", TRUE, TRUE),
                        FileRec(33, su, 4, 3, "text/plain", FALSE, TRUE)>>
        ELSE IF f = 11 THEN <<FileRec(41, sx, 5, 10, "application/pdf", TRUE, TRUE),
                              FileRec(42, sw, 6, 2, "text/plain", TRUE, FALSE)>>
        ELSE IF f = 12 THEN <<FileRec(51, sb, 7, 1, "text/plain", TRUE, TRUE),
                              FileRec(52, sA, 7, 2, "text/plain", TRUE, TRUE),
                              FileRec(53, sc, 7, 3, "text/plain", TRUE, TRUE)>>
        ELSE IF f = 21 THEN <<FileRec(61, sd, 8, 1, "text/plain", TRUE, TRUE),
                              FileRec(62, sd, 8, 2, "image/png", TRUE, TRUE)>>
        ELSE <<>>]]

Remotes == {RemoteStore(n, hasRoot) : n \in 0..MaxFanout, hasRoot \in BOOLEAN}

\* The root strings NewFs is given: "", "b" and "A/x".
Roots == {sEmpty, sb, sA \o sSlash \o sx}

----------------------------------------------------------------------------
(* Nodes *)

Nil == 0

\* What dereferencing a nil *Node yields: a run-time panic.
NilDeref == -1

\* new(Node)
ZeroNode ==
    [Children |-> <<>>, Name |-> sEmpty, Id |-> 0, IsDir |-> FALSE,
     ChDate |-> 0, Size |-> 0, ContentType |-> ""]

Min(S) == CHOOSE x \in S : \A y \in S : x <= y

\* GetNodeAtPath without the check for an empty first segment.
RECURSIVE GetNodeAtPath_NoEmptyCheck(_, _, _)
GetNodeAtPath_NoEmptyCheck(h, node, pathSplit) ==
    IF Len(pathSplit) = 0 THEN node
    ELSE IF pathSplit[1] = sDot THEN node
    ELSE IF node = Nil THEN NilDeref
    ELSE LET kids == h[node].Children
             hits == {i \in 1..Len(kids) : h[kids[i]].Name = pathSplit[1]}
         IN  IF hits = {} THEN Nil
             ELSE GetNodeAtPath_NoEmptyCheck(h, kids[Min(hits)], Tail(pathSplit))

RECURSIVE GetNodeAtPath(_, _, _)
GetNodeAtPath(h, node, pathSplit) ==
    IF Len(pathSplit) = 0 THEN node
    ELSE IF pathSplit[1] = sDot THEN node
    ELSE IF pathSplit[1] = sEmpty THEN node
    ELSE IF node = Nil THEN NilDeref
    ELSE LET kids == h[node].Children
             hits == {i \in 1..Len(kids) : h[kids[i]].Name = pathSplit[1]}
         IN  IF hits = {} THEN Nil
             ELSE GetNodeAtPath(h, kids[Min(hits)], Tail(pathSplit))

\* The root node GetCourseFileTree makes.
CourseRootNode(rootFolderID) ==
    [ZeroNode EXCEPT !.IsDir = TRUE, !.Id = rootFolderID]

\* The child node FillFolderNode makes for a subfolder.
FolderChild(folder) ==
    [ZeroNode EXCEPT !.Id = folder.ID, !.IsDir = TRUE, !.Name = folder.Name,
                     !.ChDate = folder.Chdate, !.Size = -1]

\* Admitted with the downloadable flag left unchecked.
Admitted_ReadableOnly(file) == file.IsReadable

\* The files FillFolderNode keeps.
Admitted(file) == file.IsReadable /\ file.IsDownloadable

\* FileChild with the size left at its zero value.
FileChild_SizeUnset(file) ==
    [ZeroNode EXCEPT !.Id = file.ID, !.IsDir = FALSE, !.Name = file.Name,
                     !.ChDate = file.Chdate, !.ContentType = file.MimeType]

\* The child node FillFolderNode makes for a file.
FileChild(file) ==
    [ZeroNode EXCEPT !.Id = file.ID, !.IsDir = FALSE, !.Name = file.Name,
                     !.ChDate = file.Chdate, !.Size = file.Filesize,
                     !.ContentType = file.MimeType]

AppendChildren_IntoFirstNode(h, folderNode, nodes) ==
    [a \in 1..(Len(h) + Len(nodes)) |->
        IF a > Len(h) THEN nodes[a - Len(h)]
        ELSE IF a = 1
        THEN [h[a] EXCEPT !.Children = @ \o [i \in 1..Len(nodes) |-> Len(h) + i]]
        ELSE h[a]]

AppendChildren_Prepend(h, folderNode, nodes) ==
    [a \in 1..(Len(h) + Len(nodes)) |->
        IF a > Len(h) THEN nodes[a - Len(h)]
        ELSE IF a = folderNode
        THEN [h[a] EXCEPT !.Children = [i \in 1..Len(nodes) |-> Len(h) + i] \o @]
        ELSE h[a]]

\* folderNode.Children = append(folderNode.Children, nodes...), each node newly allocated.
AppendChildren(h, folderNode, nodes) ==
    [a \in 1..(Len(h) + Len(nodes)) |->
        IF a > Len(h) THEN nodes[a - Len(h)]
        ELSE IF a = folderNode
        THEN [h[a] EXCEPT !.Children = @ \o [i \in 1..Len(nodes) |-> Len(h) + i]]
        ELSE h[a]]

----------------------------------------------------------------------------
(* Initial state *)

NoCall ==
    [op |-> "none", dir |-> sEmpty, node |-> Nil, segs |-> <<>>,
     err |-> "nil", entries |-> <<>>, result |-> Nil]

Init ==
    /\ remote \in Remotes
    /\ root \in Roots
    /\ cancelled = FALSE
    /\ heap = <<>>
    /\ task = <<>>
    /\ mainPc = "NewFs"
    /\ rootID = 0
    /\ rootNode = Nil
    /\ newFsErr = "nil"
    /\ fsRootNode = Nil
    /\ fetchLog = {}
    /\ last = NoCall

Request(kind, id, ok) == [kind |-> kind, id |-> id, ok |-> ok]

\* The context is cancelled: every later ctx.Err() is non-nil.
Cancel ==
    /\ ~cancelled
    /\ mainPc # "panic"
    /\ cancelled' = TRUE
    /\ UNCHANGED <<remote, root, heap, task, mainPc, rootID, rootNode,
                   newFsErr, fsRootNode, fetchLog, last>>

----------------------------------------------------------------------------
(* NewFs *)

NewFsFail(err) ==
    /\ mainPc' = "failed"
    /\ newFsErr' = err

\* NewFs up to the first remote call: the context and the options.
NewFsStart ==
    /\ mainPc = "NewFs"
    /\ \E courseID \in {"", "c1"}, baseOK \in BOOLEAN :
          IF cancelled THEN NewFsFail("ctx")
          ELSE IF courseID = "" THEN NewFsFail("course_id is required")
          ELSE IF ~baseOK THEN NewFsFail("invalid base_url")
          ELSE mainPc' = "TestConnection" /\ UNCHANGED newFsErr
    /\ UNCHANGED <<remote, root, cancelled, heap, task, rootID, rootNode,
                   fsRootNode, fetchLog, last>>

TestConnection ==
    /\ mainPc = "TestConnection"
    /\ IF cancelled
       THEN NewFsFail("ctx") /\ UNCHANGED fetchLog
       ELSE \E outcome \in {"transport", "decode", "mismatch", "nil"} :
              /\ fetchLog' = fetchLog \cup {Request("course", 0, outcome \notin {"transport", "decode"})}
              /\ IF outcome # "nil" THEN NewFsFail(outcome)
                 ELSE mainPc' = "RetrieveRootFolderID" /\ UNCHANGED newFsErr
    /\ UNCHANGED <<remote, root, cancelled, heap, task, rootID, rootNode,
                   fsRootNode, last>>

IndexRootFolder_Last(data) ==
    LET hits == {i \in 1..Len(data) : data[i].FolderType = "RootFolder"}
    IN  IF hits = {} THEN 0 ELSE CHOOSE i \in hits : \A j \in hits : j <= i

\* slices.IndexFunc(data, FolderType == "RootFolder"), 0 for -1.
IndexRootFolder(data) ==
    LET hits == {i \in 1..Len(data) : data[i].FolderType = "RootFolder"}
    IN  IF hits = {} THEN 0 ELSE Min(hits)

RetrieveRootFolderID ==
    /\ mainPc = "RetrieveRootFolderID"
    /\ IF cancelled
       THEN NewFsFail("ctx") /\ UNCHANGED <<fetchLog, rootID>>
       ELSE \E ok \in BOOLEAN :
              /\ fetchLog' = fetchLog \cup {Request("rootfolder", 0, ok)}
              /\ IF ~ok THEN NewFsFail("transport") /\ UNCHANGED rootID
                 ELSE LET index == IndexRootFolder(remote.course)
                      IN  IF index = 0
                          THEN NewFsFail("no RootFolder") /\ UNCHANGED rootID
                          ELSE /\ rootID' = remote.course[index].ID
                               /\ mainPc' = "GetCourseFileTree"
                               /\ UNCHANGED newFsErr
    /\ UNCHANGED <<remote, root, cancelled, heap, task, rootNode, fsRootNode, last>>

NewTask(parent) ==
    [pc |-> "folders", parent |-> parent, length |-> 0, recvd |-> 0, err |-> "nil"]

\* GetCourseFileTree up to its call of FillFolderNode on the new root node.
GetCourseFileTree ==
    /\ mainPc = "GetCourseFileTree"
    /\ IF cancelled
       THEN NewFsFail("ctx") /\ UNCHANGED <<heap, task>>
       ELSE /\ heap' = Append(heap, CourseRootNode(rootID))
            /\ task' = (Len(heap) + 1) :> NewTask(Nil)
            /\ mainPc' = "FillFolderNode"
            /\ UNCHANGED newFsErr
    /\ UNCHANGED <<remote, root, cancelled, rootID, rootNode, fsRootNode, fetchLog, last>>

----------------------------------------------------------------------------
(* FillFolderNode *)

Returned_NoSend(tk, err) ==
    [tk EXCEPT !.err = err, !.pc = IF tk.parent = Nil THEN "returned" ELSE "exited"]

\* return err: the root call returns to GetCourseFileTree; a goroutine goes
\* on to send err on its parent's errChan.
Returned(tk, err) ==
    [tk EXCEPT !.err = err, !.pc = IF tk.parent = Nil THEN "returned" ELSE "send"]

EntryError_NoDirCheck(done, folderNode) ==
    IF done THEN "ctx" ELSE "nil"

\* The two checks FillFolderNode makes before it fetches anything: the
\* context (done: ctx.Err() is not nil), then that the node is a folder.
EntryError(done, folderNode) ==
    IF done THEN "ctx"
    ELSE IF ~folderNode.IsDir THEN "node isn't a folder"
    ELSE "nil"

\* FillFolderNode from its entry to the launch of the goroutines: the two
\* checks, RetrieveFoldersOfFolder, the child nodes, errChan and the go loop.
FetchFolders(t) ==
    /\ t \in DOMAIN task
    /\ task[t].pc = "folders"
    /\ IF EntryError(cancelled, heap[t]) # "nil"
       THEN task' = [task EXCEPT ![t] = Returned(@, EntryError(cancelled, heap[t]))]
            /\ UNCHANGED <<heap, fetchLog>>
       ELSE \E ok \in BOOLEAN :
              /\ fetchLog' = fetchLog \cup {Request("folders", heap[t].Id, ok)}
              /\ IF ~ok
                 THEN task' = [task EXCEPT ![t] = Returned(@, "transport")]
                      /\ UNCHANGED heap
                 ELSE LET folders == remote.folders[heap[t].Id]
                          nodes == [i \in 1..Len(folders) |-> FolderChild(folders[i])]
                          h == AppendChildren(heap, t, nodes)
                          length == Len(h[t].Children)
                          spawned == {h[t].Children[i] : i \in 1..length}
                      IN  /\ heap' = h
                          /\ task' = [a \in DOMAIN task \cup spawned |->
                                IF a = t
                                THEN [task[t] EXCEPT !.length = length,
                                        !.pc = IF length = 0 THEN "files" ELSE "wait"]
                                ELSE IF a \in spawned THEN NewTask(t)
                                ELSE task[a]]
    /\ UNCHANGED <<remote, root, cancelled, mainPc, rootID, rootNode,
                   newFsErr, fsRootNode, last>>

\* AfterRecv with the received error dropped.
AfterRecv_ErrorDropped(tk, err) ==
    LET got == [tk EXCEPT !.recvd = @ + 1]
    IN  IF got.recvd = got.length THEN [got EXCEPT !.pc = "files"] ELSE got

AfterRecv_NoBarrier(tk, err) ==
    LET got == [tk EXCEPT !.recvd = @ + 1]
    IN  IF err # "nil" THEN Returned(got, err) ELSE [got EXCEPT !.pc = "files"]

\* One turn of the receive loop, having received err.
AfterRecv(tk, err) ==
    LET got == [tk EXCEPT !.recvd = @ + 1]
    IN  IF err # "nil" THEN Returned(got, err)
        ELSE IF got.recvd = got.length THEN [got EXCEPT !.pc = "files"]
        ELSE got

\* errChan is unbuffered: the send of child c and the receive of its parent p
\* happen together, and the goroutine of c ends.
Recv(p, c) ==
    /\ p \in DOMAIN task /\ c \in DOMAIN task
    /\ task[p].pc = "wait"
    /\ task[c].pc = "send"
    /\ task[c].parent = p
    /\ task' = [task EXCEPT ![c].pc = "exited", ![p] = AfterRecv(@, task[c].err)]
    /\ UNCHANGED <<remote, root, cancelled, heap, mainPc, rootID, rootNode,
                   newFsErr, fsRootNode, fetchLog, last>>

FetchFiles_NoCtxCheck(t) ==
    /\ t \in DOMAIN task
    /\ task[t].pc = "files"
    /\ \E ok \in BOOLEAN :
          /\ fetchLog' = fetchLog \cup {Request("files", heap[t].Id, ok)}
          /\ IF ~ok
             THEN task' = [task EXCEPT ![t] = Returned(@, "transport")]
                  /\ UNCHANGED heap
             ELSE LET files == SelectSeq(remote.files[heap[t].Id], Admitted)
                      nodes == [i \in 1..Len(files) |-> FileChild(files[i])]
                  IN  /\ heap' = AppendChildren(heap, t, nodes)
                      /\ task' = [task EXCEPT ![t] = Returned(@, "nil")]
    /\ UNCHANGED <<remote, root, cancelled, mainPc, rootID, rootNode,
                   newFsErr, fsRootNode, last>>

\* FillFolderNode from RetrieveFilesOfFolder to its return.
FetchFiles(t) ==
    /\ t \in DOMAIN task
    /\ task[t].pc = "files"
    /\ IF cancelled
       THEN task' = [task EXCEPT ![t] = Returned(@, "ctx")] /\ UNCHANGED <<heap, fetchLog>>
       ELSE \E ok \in BOOLEAN :
              /\ fetchLog' = fetchLog \cup {Request("files", heap[t].Id, ok)}
              /\ IF ~ok
                 THEN task' = [task EXCEPT ![t] = Returned(@, "transport")]
                      /\ UNCHANGED heap
                 ELSE LET files == SelectSeq(remote.files[heap[t].Id], Admitted)
                          nodes == [i \in 1..Len(files) |-> FileChild(files[i])]
                      IN  /\ heap' = AppendChildren(heap, t, nodes)
                          /\ task' = [task EXCEPT ![t] = Returned(@, "nil")]
    /\ UNCHANGED <<remote, root, cancelled, mainPc, rootID, rootNode,
                   newFsErr, fsRootNode, last>>

\* The root FillFolderNode call has returned: GetCourseFileTree returns, and
\* NewFs either fails or keeps the tree and resolves the configured root.
FinishNewFs ==
    /\ mainPc = "FillFolderNode"
    /\ \E t \in DOMAIN task :
          /\ task[t].parent = Nil
          /\ task[t].pc = "returned"
          /\ IF task[t].err # "nil"
             THEN NewFsFail(task[t].err) /\ UNCHANGED <<rootNode, fsRootNode>>
             ELSE /\ rootNode' = t
                  /\ fsRootNode' = IF root # sEmpty
                                   THEN GetNodeAtPath(heap, t, splitPath(Dir(root)))
                                   ELSE t
                  /\ mainPc' = "ready"
                  /\ UNCHANGED newFsErr
    /\ UNCHANGED <<remote, root, cancelled, heap, task, rootID, fetchLog, last>>

----------------------------------------------------------------------------
(* The finished Fs *)

\* The Directory or Object that List makes of a child.
ProjectEntry(h, dir, entry) ==
    IF h[entry].IsDir
    THEN [kind |-> "directory", remote |-> Join(dir, h[entry].Name), id |-> h[entry].Id,
          name |-> h[entry].Name, items |-> Len(h[entry].Children), size |-> -1,
          contentType |-> "", modTime |-> h[entry].ChDate]
    ELSE [kind |-> "object", remote |-> Join(dir, h[entry].Name), id |-> h[entry].Id,
          name |-> sEmpty, items |-> 0, size |-> h[entry].Size,
          contentType |-> h[entry].ContentType, modTime |-> h[entry].ChDate]

\* fs.CompareDirEntries: by Remote() as Go compares strings, then by
\* fs.DirEntryType, where "directory" < "object".
CompareDirEntries(a, b) ==
    IF StrLess(b.remote, a.remote) THEN 1
    ELSE IF StrLess(a.remote, b.remote) THEN -1
    ELSE IF a.kind = "object" /\ b.kind = "directory" THEN 1
    ELSE IF a.kind = "directory" /\ b.kind = "object" THEN -1
    ELSE 0

\* A string with its upper-case ASCII letters made lower-case.
Fold(str) == [i \in 1..Len(str) |-> IF str[i] >= 65 /\ str[i] <= 90 THEN str[i] + 32 ELSE str[i]]

\* Less comparing the names without regard to case.
Less_CaseFolded(entries, i, j) == StrLess(Fold(entries[i].remote), Fold(entries[j].remote))

\* The less function List hands to sort.Slice: entries.Less(i, j).
Less(entries, i, j) == CompareDirEntries(entries[i], entries[j]) < 0

\* sort.Slice(entries, less): a permutation in which no element is less than
\* one before it; the sort is not stable, so equal elements land in any order.
SortSlice(entries) ==
    LET n == Len(entries)
        arranged == {[i \in 1..n |-> entries[p[i]]] : p \in Permutations(1..n)}
    IN  {s \in arranged : \A i \in 1..n : \A j \in (i + 1)..n : ~Less(s, j, i)}

Called(op, dir, node, segs, err, entries, result) ==
    [op |-> op, dir |-> dir, node |-> node, segs |-> segs, err |-> err,
     entries |-> entries, result |-> result]

\* The dir strings List is called with: "", "b", "A", "b/x", "a", "zz", "./b".
Dirs == {sEmpty, sb, sA, sb \o sSlash \o sx, sa, szz, sDot \o sSlash \o sb}

\* What List leaves in the tree: entries is a slice of its own, built from
\* the children it reads, and sort.Slice sorts entries; node.Children and
\* every node keep their values.
HeapAfterList_SortsChildren(h, node, entries) ==
    [h EXCEPT ![node].Children =
        [i \in 1..Len(entries) |->
            CHOOSE a \in {h[node].Children[k] : k \in 1..Len(h[node].Children)} :
                h[a].Id = entries[i].id]]

HeapAfterList(h, node, entries) == h

\* Fs.List.  In !node.IsDir || node == nil the left operand is evaluated
\* first, so a nil node is dereferenced and the call panics.
List(dir) ==
    /\ mainPc = "ready"
    /\ IF cancelled
       THEN last' = Called("List", dir, Nil, <<>>, "ctx", <<>>, Nil) /\ UNCHANGED <<mainPc, heap>>
       ELSE LET pathSplit == Split(dir, Sep)
                node == GetNodeAtPath(heap, fsRootNode, pathSplit)
            IN  IF node = NilDeref \/ node = Nil
                THEN /\ last' = Called("List", dir, node, pathSplit, "panic", <<>>, Nil)
                     /\ mainPc' = "panic"
                     /\ UNCHANGED heap
                ELSE IF ~heap[node].IsDir
                THEN /\ last' = Called("List", dir, node, pathSplit, "ErrorDirNotFound", <<>>, Nil)
                     /\ UNCHANGED <<mainPc, heap>>
                ELSE /\ \E entries \in SortSlice([i \in 1..Len(heap[node].Children) |->
                                        ProjectEntry(heap, dir, heap[node].Children[i])]) :
                            /\ last' = Called("List", dir, node, pathSplit, "nil", entries, Nil)
                            /\ heap' = HeapAfterList(heap, node, entries)
                     /\ UNCHANGED mainPc
    /\ UNCHANGED <<remote, root, cancelled, task, rootID, rootNode,
                   newFsErr, fsRootNode, fetchLog>>

\* The segment sequences GetNodeAtPath is called with.
SegSeqs ==
    {<<>>, <<sDot>>, <<sEmpty>>, <<sb>>, <<sB>>, <<sa>>, <<szz>>, <<sb, sx>>,
     <<sb, sx, sd>>, <<sDot, sb>>, <<sb, sEmpty, sx>>}

\* A call of GetNodeAtPath on a node of the tree, or on nil.
Resolve(node, segs) ==
    /\ mainPc = "ready"
    /\ node \in {Nil} \cup DOMAIN heap
    /\ LET result == GetNodeAtPath(heap, node, segs)
       IN  last' = Called("GetNodeAtPath", sEmpty, node, segs,
                          IF result = NilDeref THEN "panic" ELSE "nil", <<>>, result)
    /\ UNCHANGED <<remote, root, cancelled, heap, task, mainPc, rootID, rootNode,
                   newFsErr, fsRootNode, fetchLog>>

\* A call of FillFolderNode on a file node of the finished tree: the only
\* calls on such a node are those a holder of the Fs makes itself, since the
\* build calls it on folder nodes only.  The call ends at its entry checks.
FillFolderNodeOnLeaf(node) ==
    /\ mainPc = "ready"
    /\ node \in DOMAIN heap
    /\ ~heap[node].IsDir
    /\ last' = Called("FillFolderNode", sEmpty, node, <<>>,
                      EntryError(cancelled, heap[node]), <<>>, Nil)
    /\ UNCHANGED <<remote, root, cancelled, heap, task, mainPc, rootID, rootNode,
                   newFsErr, fsRootNode, fetchLog>>

FsWriteOps == {"Put", "Mkdir", "Rmdir", "Purge", "Copy", "Move", "DirMove"}

\* Fs.Put, Mkdir, Rmdir, Purge, Copy, Move, DirMove
FsWrite(op) ==
    /\ mainPc = "ready"
    /\ last' = Called(op, sEmpty, Nil, <<>>, "ErrorPermissionDenied", <<>>, Nil)
    /\ UNCHANGED <<remote, root, cancelled, heap, task, mainPc, rootID, rootNode,
                   newFsErr, fsRootNode, fetchLog>>

ObjectWriteOps == {"Update", "Remove", "SetModTime"}

\* Object.Update, Remove, SetModTime
ObjectWrite(op) ==
    /\ mainPc = "ready"
    /\ last' = Called(op, sEmpty, Nil, <<>>, "ErrorNotImplemented", <<>>, Nil)
    /\ UNCHANGED <<remote, root, cancelled, heap, task, mainPc, rootID, rootNode,
                   newFsErr, fsRootNode, fetchLog>>

----------------------------------------------------------------------------

Next ==
    \/ Cancel
    \/ NewFsStart
    \/ TestConnection
    \/ RetrieveRootFolderID
    \/ GetCourseFileTree
    \/ \E t \in DOMAIN task : FetchFolders(t)
    \/ \E p \in DOMAIN task : \E c \in DOMAIN task : Recv(p, c)
    \/ \E t \in DOMAIN task : FetchFiles(t)
    \/ FinishNewFs
    \/ \E dir \in Dirs : List(dir)
    \/ \E node \in {Nil} \cup DOMAIN heap : \E segs \in SegSeqs : Resolve(node, segs)
    \/ \E node \in DOMAIN heap : FillFolderNodeOnLeaf(node)
    \/ \E op \in FsWriteOps : FsWrite(op)
    \/ \E op \in ObjectWriteOps : ObjectWrite(op)

Spec == Init /\ [][Next]_vars

\* The goroutines are scheduled and every remote call returns: a build step
\* that stays possible is taken.
BuildStep ==
    \/ \E t \in DOMAIN task : FetchFolders(t)
    \/ \E p \in DOMAIN task : \E c \in DOMAIN task : Recv(p, c)
    \/ \E t \in DOMAIN task : FetchFiles(t)

FairSpec == Init /\ [][Next]_vars /\ WF_vars(BuildStep)

----------------------------------------------------------------------------
(* Properties *)

HasReturned(t) == task[t].pc \in {"send", "exited", "returned"}

Goroutines == {t \in DOMAIN task : task[t].parent # Nil}

RootCalls == {t \in DOMAIN task : task[t].parent = Nil}

ChildrenOf(p) == {c \in DOMAIN task : task[c].parent = p}

\* C1: a FillFolderNode call that has launched N subfolder tasks has, once it
\* has returned, received one signal from each of them, also when one failed.
C1_BarrierOnFailure ==
    \A t \in DOMAIN task : HasReturned(t) => task[t].recvd = task[t].length

\* C2: with every fetch returning and the goroutines scheduled fairly, the
\* build comes to a point from which every goroutine FillFolderNode has
\* spawned has had its send received and has ended.
C2_NoAbandonedTask ==
    <>[](\A t \in Goroutines : task[t].pc = "exited")

AllFetchesSucceeded ==
    /\ \A f \in DOMAIN remote.folders :
          /\ Request("folders", f, TRUE) \in fetchLog
          /\ Request("files", f, TRUE) \in fetchLog
    /\ \A r \in fetchLog : r.kind \in {"folders", "files"} => r.ok

\* C3: the root FillFolderNode call returns nil exactly when the subfolder
\* fetch and the file fetch of every folder of the remote tree was made and
\* succeeded; when NewFs has failed there is no tree and no f.rootNode, and a
\* finished Fs stands on a build in which every fetch succeeded.
C3_AllOrNothing ==
    /\ \A t \in RootCalls :
          task[t].pc = "returned" => (task[t].err = "nil" <=> AllFetchesSucceeded)
    /\ mainPc = "failed" => rootNode = Nil /\ fsRootNode = Nil /\ newFsErr # "nil"
    /\ mainPc \in {"ready", "panic"} =>
          /\ AllFetchesSucceeded
          /\ rootNode \in RootCalls
          /\ newFsErr = "nil"

\* The file fetch of the folder two levels down failed after the whole
\* subtree of its parent's sibling had been built, and NewFs failed.
C3_Witness ==
    /\ mainPc = "failed"
    /\ Request("files", 21, FALSE) \in fetchLog
    /\ Request("files", 12, TRUE) \in fetchLog
    /\ \E t \in RootCalls : task[t].pc = "returned" /\ task[t].err = "transport"

\* The places (a, k) at which a node with identifier id is a child.
PlacesOf(id) ==
    UNION {{<<a, k>> : k \in {j \in 1..Len(heap[a].Children) :
                                  heap[heap[a].Children[j]].Id = id}} : a \in DOMAIN heap}

\* C4: in a built snapshot a file record that is not readable, or not
\* downloadable, has no node and is in the entries of no List call; a file
\* record with both flags set has exactly one node, a leaf under the node of
\* its folder.
C4_FileFilter ==
    mainPc \in {"ready", "panic"} =>
        \A f \in DOMAIN remote.files : \A i \in 1..Len(remote.files[f]) :
            LET rec == remote.files[f][i]
            IN  IF rec.IsReadable /\ rec.IsDownloadable
                THEN /\ Cardinality(PlacesOf(rec.ID)) = 1
                     /\ Cardinality({a \in DOMAIN heap : heap[a].Id = rec.ID}) = 1
                     /\ \A pl \in PlacesOf(rec.ID) :
                           /\ heap[pl[1]].Id = f
                           /\ heap[pl[1]].IsDir
                           /\ ~heap[heap[pl[1]].Children[pl[2]]].IsDir
                           /\ heap[heap[pl[1]].Children[pl[2]]].Children = <<>>
                ELSE /\ \A a \in DOMAIN heap : heap[a].Id # rec.ID
                     /\ \A k \in 1..Len(last.entries) : last.entries[k].id # rec.ID

\* Folder b, which holds the file w that is not downloadable, has been listed.
C4_Witness ==
    /\ mainPc = "ready"
    /\ fsRootNode = rootNode
    /\ last.op = "List" /\ last.dir = sb /\ last.err = "nil"
    /\ Len(last.entries) = 2

KeptFile(rec) == rec.IsReadable /\ rec.IsDownloadable

Elements(seq) == {seq[i] : i \in 1..Len(seq)}

\* The node at address a is the image of remote folder f: a directory with
\* that identifier whose children are one directory node (size -1) per
\* subfolder, itself the image of that subfolder, one leaf per kept file
\* with the file's name, size and MIME type, and nothing else.
RECURSIVE Mirrors(_, _, _)
Mirrors(h, a, f) ==
    LET subs == remote.folders[f]
        files == SelectSeq(remote.files[f], KeptFile)
        kids == h[a].Children
        at(id) == {k \in 1..Len(kids) : h[kids[k]].Id = id}
    IN  /\ h[a].IsDir
        /\ h[a].Id = f
        /\ Len(kids) = Len(subs) + Len(files)
        /\ \A i \in 1..Len(subs) :
              /\ Cardinality(at(subs[i].ID)) = 1
              /\ \A k \in at(subs[i].ID) :
                    /\ h[kids[k]].Name = subs[i].Name
                    /\ h[kids[k]].Size = -1
                    /\ Mirrors(h, kids[k], subs[i].ID)
        /\ \A i \in 1..Len(files) :
              /\ Cardinality(at(files[i].ID)) = 1
              /\ \A k \in at(files[i].ID) :
                    /\ ~h[kids[k]].IsDir
                    /\ h[kids[k]].Name = files[i].Name
                    /\ h[kids[k]].Size = files[i].Filesize
                    /\ h[kids[k]].ContentType = files[i].MimeType
                    /\ h[kids[k]].Children = <<>>

\* The number of folders and kept files of the remote store.
RemoteSize ==
    LET RECURSIVE Sum(_)
        Sum(F) == IF F = {} THEN 0
                  ELSE LET f == CHOOSE x \in F : TRUE
                       IN  1 + Len(SelectSeq(remote.files[f], KeptFile)) + Sum(F \ {f})
    IN  Sum(DOMAIN remote.folders)

\* A name that one child of folder f bears and no other, and that is neither "" nor ".".
PlainName(f, name) ==
    /\ name \notin {sEmpty, sDot}
    /\ Cardinality({i \in 1..Len(remote.folders[f]) : remote.folders[f][i].Name = name})
       + Cardinality({i \in 1..Len(remote.files[f]) :
                         KeptFile(remote.files[f][i]) /\ remote.files[f][i].Name = name}) = 1

\* The kept files below folder f, each with its path of names from prefix
\* on, and whether every name on that path is plain.
RECURSIVE FilePaths(_, _, _)
FilePaths(f, prefix, plain) ==
    {[path |-> Append(prefix, rec.Name), rec |-> rec, plain |-> plain /\ PlainName(f, rec.Name)] :
        rec \in {r \in Elements(remote.files[f]) : KeptFile(r)}}
    \cup UNION {FilePaths(sub.ID, Append(prefix, sub.Name), plain /\ PlainName(f, sub.Name)) :
                    sub \in Elements(remote.folders[f])}

\* GetNodeAtPath from the tree root, along the path of a kept file, yields a
\* file node with the size of that file.
ResolvesToFile(fp) ==
    LET n == GetNodeAtPath(heap, rootNode, fp.path)
    IN  /\ n \in DOMAIN heap
        /\ ~heap[n].IsDir
        /\ heap[n].Size = fp.rec.Filesize

\* The entries of the last List call are one entry per child of the listed
\* node, a Directory for a directory node and an Object, with the node's
\* size, for a file node.
ListedEntriesMatchChildren ==
    last.op = "List" /\ last.err = "nil" =>
        LET kids == heap[last.node].Children
        IN  /\ Len(last.entries) = Len(kids)
            /\ \A k \in 1..Len(kids) :
                  LET hits == {i \in 1..Len(last.entries) : last.entries[i].id = heap[kids[k]].Id}
                  IN  /\ Cardinality(hits) = 1
                      /\ \A i \in hits :
                            IF heap[kids[k]].IsDir
                            THEN last.entries[i].kind = "directory"
                            ELSE /\ last.entries[i].kind = "object"
                                 /\ last.entries[i].size = heap[kids[k]].Size

\* C5 as stated: after a successful build every remote folder, the root
\* folder too, has exactly one directory node of size -1 at its path, every
\* kept file exactly one file node with its size and MIME type at its path,
\* there are no other nodes, the path of every kept file resolves to a file
\* node of that size, and a listing has one rightly typed entry per child.
C5_SnapshotMirrorsRemote ==
    mainPc \in {"ready", "panic"} =>
        /\ Mirrors(heap, rootNode, rootID)
        /\ heap[rootNode].Size = -1
        /\ Len(heap) = RemoteSize
        /\ \A fp \in FilePaths(rootID, <<>>, TRUE) : ResolvesToFile(fp)
        /\ ListedEntriesMatchChildren

\* C5 amended: as C5, but the root node, which GetCourseFileTree makes, has
\* size 0, and the path of a kept file resolves to its node when every name
\* on the path is borne by one child only and is neither "" nor ".".
C5_SnapshotMirrorsRemote_Amended ==
    mainPc \in {"ready", "panic"} =>
        /\ Mirrors(heap, rootNode, rootID)
        /\ heap[rootNode].Size = 0
        /\ Len(heap) = RemoteSize
        /\ \A fp \in FilePaths(rootID, <<>>, TRUE) :
              fp.plain => ResolvesToFile(fp) /\ heap[GetNodeAtPath(heap, rootNode, fp.path)].Id = fp.rec.ID
        /\ ListedEntriesMatchChildren

\* The store with two subfolders under the root has been built, twelve nodes
\* in all, and its root has been listed.
C5_Witness ==
    /\ mainPc = "ready"
    /\ Len(remote.folders[rootID]) = 2
    /\ Len(heap) = 12
    /\ last.op = "List" /\ last.err = "nil" /\ last.node = rootNode
    /\ Len(last.entries) = 4

\* C6: a List call whose path resolves to nil, or to a node that is not a
\* directory, returns ErrorDirNotFound and no entries, and does not crash.
C6_ListMissingOrNotDir ==
    (/\ last.op = "List"
     /\ last.err # "ctx"
     /\ \/ last.node = Nil
        \/ last.node \in DOMAIN heap /\ ~heap[last.node].IsDir)
    => /\ last.err = "ErrorDirNotFound"
       /\ last.entries = <<>>
       /\ mainPc # "panic"

IdentitySegs == {<<>>, <<sDot>>, <<sEmpty>>}

\* The walk C7 describes: the node itself for [], ["."] and [""]; otherwise
\* the first child whose name equals the first segment, and from it the
\* remaining segments; nil when no child bears that name.
RECURSIVE Walk(_, _, _)
Walk(h, node, segs) ==
    IF segs \in IdentitySegs THEN node
    ELSE LET kids == h[node].Children
             hits == {i \in 1..Len(kids) : h[kids[i]].Name = segs[1]}
         IN  IF hits = {} THEN Nil
             ELSE Walk(h, kids[Min(hits)], Tail(segs))

\* C7: for a segment sequence other than [], ["."] and [""], GetNodeAtPath on
\* a node returns what the walk by exact name equality reaches, and nil as
\* soon as a segment matches no child.
C7_ResolverWalk ==
    (/\ last.op = "GetNodeAtPath"
     /\ last.node # Nil
     /\ last.segs \notin IdentitySegs)
    => last.result = Walk(heap, last.node, last.segs)

\* C8: GetNodeAtPath called with [], ["."] or [""] returns the node it was
\* given, and changes no node.
C8_ResolverIdentity ==
    [][(/\ last' # last
        /\ last'.op = "GetNodeAtPath"
        /\ last'.segs \in IdentitySegs)
       => (last'.result = last'.node /\ heap' = heap)]_vars

\* GetNodeAtPath was called with [""] on a directory node that has children.
C8_Witness ==
    /\ last.op = "GetNodeAtPath"
    /\ last.segs = <<sEmpty>>
    /\ last.node \in DOMAIN heap
    /\ heap[last.node].Children # <<>>
    /\ last.result = last.node

NameOfEntry(e) == heap[CHOOSE a \in DOMAIN heap : heap[a].Id = e.id].Name

PlaceOfEntry(e) ==
    CHOOSE k \in 1..Len(heap[last.node].Children) :
        heap[heap[last.node].Children[k]].Id = e.id

\* C9 as stated: the entries List returns are in ascending order of their
\* names compared without regard to case, and entries whose names are then
\* equal are in the order of the children.
C9_ListingOrder ==
    last.op = "List" /\ last.err = "nil" =>
        \A i \in 1..Len(last.entries) : \A j \in (i + 1)..Len(last.entries) :
            LET ni == Fold(NameOfEntry(last.entries[i]))
                nj == Fold(NameOfEntry(last.entries[j]))
            IN  /\ ~StrLess(nj, ni)
                /\ ni = nj => PlaceOfEntry(last.entries[i]) < PlaceOfEntry(last.entries[j])

\* C9 amended: the entries List returns are the children's entries in
\* ascending order of their remote paths compared byte by byte, upper case
\* before lower case, a directory before a file of the same path.
C9_ListingOrder_Amended ==
    last.op = "List" /\ last.err = "nil" =>
        /\ Len(last.entries) = Len(heap[last.node].Children)
        /\ \A k \in 1..Len(heap[last.node].Children) :
              \E i \in 1..Len(last.entries) :
                 /\ last.entries[i].id = heap[heap[last.node].Children[k]].Id
                 /\ last.entries[i].remote = Join(last.dir, heap[heap[last.node].Children[k]].Name)
        /\ \A i \in 1..Len(last.entries) : \A j \in (i + 1)..Len(last.entries) :
              /\ ~StrLess(last.entries[j].remote, last.entries[i].remote)
              /\ last.entries[i].remote = last.entries[j].remote =>
                    ~(last.entries[i].kind = "object" /\ last.entries[j].kind = "directory")

\* A directory whose children are the files a and B has been listed: B, a.
C9_Witness ==
    /\ last.op = "List" /\ last.err = "nil"
    /\ Len(heap[last.node].Children) = 2
    /\ heap[heap[last.node].Children[1]].Name = sa
    /\ heap[heap[last.node].Children[2]].Name = sB
    /\ last.entries[1].remote = sB
    /\ last.entries[2].remote = sa

\* C10: every write-class call returns ErrorPermissionDenied.
C10_ReadOnly ==
    last.op \in FsWriteOps \cup ObjectWriteOps => last.err = "ErrorPermissionDenied"

----------------------------------------------------------------------------

\* C11: lookups are pure.  Once NewFs has returned the Fs, no step issues a
\* remote request or changes a node or a children sequence, whatever List and
\* GetNodeAtPath calls are made (List sorts its own entries); every path
\* resolves from the root of the Fs to the same node before and after a
\* List, and a GetNodeAtPath call returns the node its path resolves to in
\* the tree it leaves, so a repeated call returns that node again.
C11_LookupsPure ==
    [][mainPc = "ready" =>
          /\ fetchLog' = fetchLog
          /\ heap' = heap
          /\ fsRootNode' = fsRootNode
          /\ (last' # last /\ last'.op = "List")
                => \A segs \in SegSeqs :
                      GetNodeAtPath(heap', fsRootNode', segs)
                          = GetNodeAtPath(heap, fsRootNode, segs)
          /\ (last' # last /\ last'.op = "GetNodeAtPath")
                => last'.result = GetNodeAtPath(heap', last'.node, last'.segs)]_vars

\* A listing of a directory whose children are not in sorted order has been
\* returned sorted, and the children are still in fetch order.
C11_Witness ==
    /\ mainPc = "ready"
    /\ last.op = "List"
    /\ last.err = "nil"
    /\ Len(last.entries) >= 2
    /\ last.entries # [i \in 1..Len(heap[last.node].Children) |->
                          ProjectEntry(heap, last.dir, heap[last.node].Children[i])]

----------------------------------------------------------------------------

\* C12: no writes after the build ends.  From the moment the root
\* FillFolderNode call has returned, with nil or with an error, every build
\* task has ended, and no step writes a node's children or issues a fetch.
C12_QuietAfterBuild ==
    [][(\E r \in RootCalls : task[r].pc = "returned") =>
          /\ \A t \in Goroutines : task[t].pc = "exited"
          /\ heap' = heap
          /\ fetchLog' = fetchLog]_vars

----------------------------------------------------------------------------

\* The nodes whose children sequence a step changes.
WrittenNodes == {a \in DOMAIN heap : heap'[a].Children # heap[a].Children}

\* C13: single writer per node.  A step that changes the children of a node
\* is a step of the FillFolderNode call made on that node, at one of its two
\* fetches; it changes the children of no other node and moves no other
\* task, and it is taken while NewFs still waits for the build or has failed,
\* so with no List, no GetNodeAtPath and no other task reading that sequence.
C13_SingleWriter ==
    [][\A a \in WrittenNodes :
          /\ a \in DOMAIN task
          /\ task[a].pc \in {"folders", "files"}
          /\ task'[a].pc # task[a].pc
          /\ WrittenNodes = {a}
          /\ \A b \in DOMAIN task \ {a} : task'[b] = task[b]
          /\ mainPc \in {"FillFolderNode", "failed"}
          /\ mainPc' = mainPc
          /\ last' = last]_vars

\* Two goroutines have each written the children of their own node, one of
\* them both times, while their parent waits.
C13_Witness ==
    \E a \in Goroutines : \E b \in Goroutines :
        /\ a # b
        /\ task[a].parent = task[b].parent
        /\ task[task[a].parent].pc = "wait"
        /\ HasReturned(a) /\ task[a].err = "nil" /\ heap[a].Children # <<>>
        /\ task[b].pc = "files" /\ heap[b].Children # <<>>

----------------------------------------------------------------------------

\* The ids of a node's children, in the order of the children sequence.
ChildIds(a) == [i \in 1..Len(heap[a].Children) |-> heap[heap[a].Children[i]].Id]

\* The ids the build is to give the folder f, in order: its subfolders as the
\* subfolder fetch lists them, then its kept files as the file fetch lists them.
FetchOrderIds(f) ==
    LET folders == remote.folders[f]
        files == SelectSeq(remote.files[f], KeptFile)
    IN  [i \in 1..Len(folders) |-> folders[i].ID] \o [i \in 1..Len(files) |-> files[i].ID]

\* C14: deterministic children order.  After a successful build the children
\* of every directory node are its subfolders in fetch order followed by its
\* admitted files in fetch order, in whatever order the goroutines ran and
\* completed.
C14_ChildrenOrder ==
    mainPc \in {"ready", "panic"} =>
        \A a \in DOMAIN heap :
            heap[a].IsDir =>
                /\ ChildIds(a) = FetchOrderIds(heap[a].Id)
                /\ \A i \in 1..Len(remote.folders[heap[a].Id]) :
                      heap[heap[a].Children[i]].IsDir
                /\ \A i \in (Len(remote.folders[heap[a].Id]) + 1)..Len(heap[a].Children) :
                      ~heap[heap[a].Children[i]].IsDir

\* A finished build in which the second subfolder's goroutine had fetched its
\* files before the first subfolder's goroutine fetched its subfolders: the
\* nodes of the second one's files were allocated before the first one's
\* child, and both have their children in fetch order.
C14_Witness ==
    /\ mainPc = "ready"
    /\ Len(heap[1].Children) >= 3
    /\ \E a \in DOMAIN heap : \E b \in DOMAIN heap :
          /\ heap[a].Id = 51
          /\ heap[b].Id = 21
          /\ a < b

----------------------------------------------------------------------------

\* The FillFolderNode calls made on the node of folder f.
CallsOn(f) == {t \in DOMAIN task : heap[t].Id = f}

\* C15: files after subfolders.  When the file fetch of a folder has been
\* issued, every goroutine its FillFolderNode call spawned has reported and
\* ended, and every one of them reported nil; a call that received an error
\* has issued no file fetch.
C15_FilesAfterSubfolders ==
    /\ \A r \in fetchLog :
          r.kind = "files" =>
              \A t \in CallsOn(r.id) :
                  /\ task[t].recvd = task[t].length
                  /\ \A c \in ChildrenOf(t) : task[c].pc = "exited" /\ task[c].err = "nil"
    /\ \A t \in DOMAIN task :
          (\E c \in ChildrenOf(t) : task[c].pc = "exited" /\ task[c].err # "nil")
              => \A ok \in BOOLEAN : Request("files", heap[t].Id, ok) \notin fetchLog

\* The root folder's file fetch has been issued, after both of the root
\* call's goroutines reported nil.
C15_Witness ==
    /\ \E t \in RootCalls :
          /\ task[t].length >= 2
          /\ \E ok \in BOOLEAN : Request("files", heap[t].Id, ok) \in fetchLog

----------------------------------------------------------------------------

\* The places of NewFs at which the next step is the entry of a call that
\* checks the context first.
EntryPcs == {"NewFs", "TestConnection", "RetrieveRootFolderID", "GetCourseFileTree"}

\* C16: cancellation check at entry.  With the context cancelled, a step that
\* enters FillFolderNode, RetrieveFoldersOfFolder, RetrieveFilesOfFolder,
\* GetCourseFileTree, RetrieveRootFolderID or List returns the context's
\* error, and no step issues a request, spawns a task or changes a node.  The
\* cancellation itself moves no task and fails no call: a call waiting in its
\* receive loop goes on receiving, and ends with the context's error only if
\* a goroutine sent it that error.
C16_CancelAtEntry ==
    [][/\ cancelled =>
            /\ fetchLog' = fetchLog
            /\ heap' = heap
            /\ DOMAIN task' = DOMAIN task
            /\ \A t \in DOMAIN task :
                  (task[t].pc \in {"folders", "files"} /\ task'[t] # task[t]) =>
                      /\ task'[t].err = "ctx"
                      /\ task'[t].pc = IF t \in RootCalls THEN "returned" ELSE "send"
            /\ (mainPc \in EntryPcs /\ mainPc' # mainPc) =>
                  mainPc' = "failed" /\ newFsErr' = "ctx"
            /\ (last' # last /\ last'.op = "List") =>
                  last'.err = "ctx" /\ last'.entries = <<>> /\ mainPc' = mainPc
       /\ cancelled' # cancelled =>
            task' = task /\ heap' = heap /\ fetchLog' = fetchLog /\ mainPc' = mainPc
       /\ \A t \in DOMAIN task :
            (task[t].pc = "wait" /\ task'[t] # task[t]) =>
                /\ task'[t].recvd = task[t].recvd + 1
                /\ \E c \in ChildrenOf(t) :
                      /\ task[c].pc = "send" /\ task'[c].pc = "exited"
                      /\ task'[t].err = task[c].err]_vars

\* The context was cancelled while a call waited in its receive loop with its
\* subfolders fetched: the call received all its signals, all nil, and then
\* returned the context's error from RetrieveFilesOfFolder without a request.
C16_Witness ==
    /\ cancelled
    /\ \E t \in DOMAIN task :
          /\ task[t].length >= 1
          /\ task[t].recvd = task[t].length
          /\ task[t].err = "ctx"
          /\ \A c \in ChildrenOf(t) : task[c].pc = "exited" /\ task[c].err = "nil"
          /\ \A ok \in BOOLEAN : Request("files", heap[t].Id, ok) \notin fetchLog

----------------------------------------------------------------------------

\* The places of the entries of the course's folder listing whose type is
\* the root marker.
RootEntries == {i \in 1..Len(remote.course) : remote.course[i].FolderType = "RootFolder"}

\* The course's folder listing has been fetched and decoded.
RootListingFetched == Request("rootfolder", 0, TRUE) \in fetchLog

\* C17: root folder lookup.  The id RetrieveRootFolderID returns is that of
\* the first entry of the listing with the root marker, and it returns one
\* whenever the listing has such an entry; when the listing has none it fails
\* with the not-found error and returns no id, NewFs fails with that error,
\* and no tree is built: no node, no FillFolderNode call, no folder fetch.
C17_RootFolderLookup ==
    /\ rootID # 0 =>
          /\ RootListingFetched
          /\ \E i \in RootEntries :
                /\ remote.course[i].ID = rootID
                /\ \A j \in RootEntries : i <= j
    /\ (RootListingFetched /\ RootEntries # {}) => rootID # 0
    /\ (RootListingFetched /\ RootEntries = {}) =>
          /\ rootID = 0
          /\ mainPc = "failed"
          /\ newFsErr = "no RootFolder"
          /\ heap = <<>> /\ task = <<>> /\ rootNode = Nil /\ fsRootNode = Nil
          /\ \A r \in fetchLog : r.kind \notin {"folders", "files"}
    /\ newFsErr = "no RootFolder" => RootListingFetched /\ RootEntries = {}

\* The listing has two entries with the root marker after one without, and
\* the lookup has returned.
C17_Witness ==
    /\ Cardinality(RootEntries) >= 2
    /\ 1 \notin RootEntries
    /\ rootID # 0

\* The listing has an entry but none with the root marker, and NewFs has
\* failed with the not-found error.
C17_WitnessNotFound ==
    /\ remote.course # <<>>
    /\ newFsErr = "no RootFolder"

----------------------------------------------------------------------------

\* C18: leaf invariant.  Every step leaves every node with IsDir false with
\* an empty children sequence, and a FillFolderNode call on such a node
\* returns an error (the folder error, or the context's when it is
\* cancelled), issues no fetch, spawns no task and changes no node.
C18_LeafInvariant ==
    [][/\ \A a \in DOMAIN heap' : ~heap'[a].IsDir => heap'[a].Children = <<>>
       /\ (last' # last /\ last'.op = "FillFolderNode") =>
            /\ ~heap[last'.node].IsDir
            /\ last'.err = IF cancelled THEN "ctx" ELSE "node isn't a folder"
            /\ heap' = heap
            /\ fetchLog' = fetchLog
            /\ task' = task]_vars

\* FillFolderNode has been called on a file node below a subfolder, and
\* returned the folder error.
C18_Witness ==
    /\ last.op = "FillFolderNode"
    /\ last.err = "node isn't a folder"
    /\ ~heap[last.node].IsDir
    /\ heap[last.node].Children = <<>>
    /\ last.node \notin {heap[1].Children[i] : i \in 1..Len(heap[1].Children)}

----------------------------------------------------------------------------

\* C19: the root build call always returns.  With every fetch returning and
\* the build steps scheduled fairly, once GetCourseFileTree has made the root
\* FillFolderNode call, that call returns, with nil or with an error.
C19_RootCallReturns ==
    (mainPc = "FillFolderNode") ~> (\E t \in RootCalls : task[t].pc = "returned")

\* The root call has returned after it waited for two goroutines, one of
\* which had waited for a goroutine of its own.
C19_Witness ==
    \E t \in RootCalls :
        /\ task[t].pc = "returned"
        /\ task[t].length >= 2
        /\ task[t].recvd = task[t].length
        /\ \E c \in ChildrenOf(t) : task[c].length >= 1 /\ task[c].recvd = task[c].length

----------------------------------------------------------------------------

\* C20: whenever NewFs has returned the Fs, whatever root string it was
\* given, f.rootNode is a directory node of the built tree, and no List call
\* dereferences a missing node: it returns entries or ErrorDirNotFound.
C20_RootNodeIsDirectory ==
    mainPc \in {"ready", "panic"} =>
        /\ fsRootNode \in DOMAIN heap
        /\ heap[fsRootNode].IsDir
        /\ last.op = "List" => last.err \in {"nil", "ErrorDirNotFound", "ctx"}

====
